---- MODULE Spec2Model ----
(***************************************************************************)
(* A model of olx_scraper.py: class OLXScraper.                            *)
(*                                                                         *)
(* Text is a sequence of one-character strings.  A Python value that may   *)
(* be None is a sequence of length 0 (None) or 1 (the value).              *)
(*                                                                         *)
(* A parsed element (bs4 Tag) is the sequence of its text fragments.  A    *)
(* listing node answers select_one(selector) for each of the field         *)
(* selectors, find('a', href=True) and find('img').  A parsed page answers *)
(* select(selector) for each card selector and the find_all text scan.     *)
(***************************************************************************)
EXTENDS Integers, Sequences, FiniteSets, TLC

VARIABLES
    pc,            \* position of the caller: "idle", "loop", "sleep", "finish", "done"
    max_pages,     \* argument of scrape_multiple_pages
    page,          \* loop variable of scrape_multiple_pages
    all_results,   \* local list of scrape_multiple_pages
    results,       \* self.results
    requested,     \* URLs passed to session.get, in order
    outcomes,      \* per scrape_page call of the run: its argument and what the fetch produced
    log,           \* the session.get and time.sleep calls of the run, in order
    fs,            \* the filesystem under 'output'
    ret,           \* the last save_to_* call and the value it returned
    saves,         \* number of save_to_* calls so far
    base_url,      \* self.base_url
    item_card,     \* argument of a direct extract_item_data call
    item_data,     \* value returned by that call
    page_num,      \* argument of a direct scrape_page call
    response,      \* what session.get / parsing produces for that call
    located,       \* items_found of that call when the item loop starts
    page_results,  \* value returned by that call
    called         \* whether the direct call has returned

vars == << pc, max_pages, page, all_results, results, requested, outcomes,
           log, fs, ret, saves, base_url, item_card, item_data, page_num,
           response, located, page_results, called >>

-----------------------------------------------------------------------------
(* Bounds *)

MaxPages == 4
MaxPageNum == 12
MaxSaves == 2

-----------------------------------------------------------------------------
(* Python values *)

None == << >>
Some(x) == << x >>
IsNone(o) == Len(o) = 0
Val(o) == o[1]

\* x or 'N/A' for x a str or None
OrDefault(o, d) == IF IsNone(o) \/ Val(o) = << >> THEN d ELSE Val(o)

Rupee == "₹"
Digits == << "0", "1", "2", "3", "4", "5", "6", "7", "8", "9" >>
Whitespace == { " ", "\n" }
NA == << "N", "/", "A" >>

isdigit(c) == \E i \in 1..Len(Digits) : Digits[i] = c

RECURSIVE lstrip(_)
lstrip(s) ==
    IF s = << >> THEN s
    ELSE IF Head(s) \in Whitespace THEN lstrip(Tail(s)) ELSE s

RECURSIVE rstrip(_)
rstrip(s) ==
    IF s = << >> THEN s
    ELSE IF s[Len(s)] \in Whitespace THEN rstrip(SubSeq(s, 1, Len(s) - 1)) ELSE s

strip(s) == rstrip(lstrip(s))

\* Tag.get_text(strip=True): every fragment stripped, empty ones dropped,
\* the rest joined with ''
RECURSIVE get_text(_)
get_text(elem) ==
    IF elem = << >> THEN << >>
    ELSE strip(Head(elem)) \o get_text(Tail(elem))

startswith(s, p) == Len(s) >= Len(p) /\ SubSeq(s, 1, Len(p)) = p

-----------------------------------------------------------------------------
(* extract_item_data *)

title_selectors == << "h6", "[data-aut-id=\"itemTitle\"]", ".title", "h6._2caa7" >>
price_selectors == << "span._2b6f3", "[data-aut-id=\"itemPrice\"]", ".price", "span[class*=\"price\"]" >>
location_selectors == << "span._2e28f", "[data-aut-id=\"item-location\"]", ".location" >>

Range(s) == { s[i] : i \in 1..Len(s) }
FieldSelectors == Range(title_selectors) \cup Range(price_selectors) \cup Range(location_selectors)

\* item_card.select_one(selector): the first matching element, or None
select_one(card, selector) == card.sel[selector]

\* the title loop skipping elements whose text is empty
RECURSIVE title_loop_skip_empty(_, _)
title_loop_skip_empty(card, i) ==
    IF i > Len(title_selectors) THEN None
    ELSE LET title_elem == select_one(card, title_selectors[i])
         IN  IF ~IsNone(title_elem) /\ get_text(Val(title_elem)) # << >>
             THEN Some(get_text(Val(title_elem)))
             ELSE title_loop_skip_empty(card, i + 1)

\* for selector in title_selectors, from the i-th on
RECURSIVE title_loop(_, _)
title_loop(card, i) ==
    IF i > Len(title_selectors) THEN None
    ELSE LET title_elem == select_one(card, title_selectors[i])
         IN  IF ~IsNone(title_elem)
             THEN Some(get_text(Val(title_elem)))
             ELSE title_loop(card, i + 1)

\* '₹' in price_text or any(char.isdigit() for char in price_text)
price_ok(price_text) ==
    \/ \E i \in 1..Len(price_text) : price_text[i] = Rupee
    \/ \E i \in 1..Len(price_text) : isdigit(price_text[i])

\* the price loop accepting the first matched element unchecked
RECURSIVE price_loop_unchecked(_, _)
price_loop_unchecked(card, i) ==
    IF i > Len(price_selectors) THEN None
    ELSE LET price_elem == select_one(card, price_selectors[i])
         IN  IF ~IsNone(price_elem)
             THEN Some(get_text(Val(price_elem)))
             ELSE price_loop_unchecked(card, i + 1)

\* for selector in price_selectors, from the i-th on
RECURSIVE price_loop(_, _)
price_loop(card, i) ==
    IF i > Len(price_selectors) THEN None
    ELSE LET price_elem == select_one(card, price_selectors[i])
         IN  IF ~IsNone(price_elem) /\ price_ok(get_text(Val(price_elem)))
             THEN Some(get_text(Val(price_elem)))
             ELSE price_loop(card, i + 1)

\* for selector in location_selectors, from the i-th on
RECURSIVE location_loop(_, _)
location_loop(card, i) ==
    IF i > Len(location_selectors) THEN None
    ELSE LET loc_elem == select_one(card, location_selectors[i])
         IN  IF ~IsNone(loc_elem)
             THEN Some(get_text(Val(loc_elem)))
             ELSE location_loop(card, i + 1)

Origin == << "h", "t", "t", "p", "s", ":", "/", "/", "w", "w", "w", ".", "o", "l", "x", ".", "i", "n" >>
Http == << "h", "t", "t", "p" >>

\* urljoin('https://www.olx.in', href) for an href that is empty, a path
\* from the root, or a path relative to the root
urljoin(base, href) ==
    IF href = << >> THEN base
    ELSE IF Head(href) = "/" THEN base \o href
    ELSE base \o << "/" >> \o href

\* link_elem = item_card.find('a', href=True); card.href is that
\* element's href, or None when there is no such element
extract_url(card) ==
    IF IsNone(card.href) THEN None
    ELSE LET href == Val(card.href)
         IN  Some(IF ~startswith(href, Http) THEN urljoin(Origin, href) ELSE href)

\* img_elem = item_card.find('img'); card.img is None when there is no
\* such element, else the value of img_elem.get('src') (itself None or a str)
extract_image_url(card) ==
    IF ~IsNone(card.img) /\ ~IsNone(Val(card.img)) /\ Val(Val(card.img)) # << >>
    THEN Val(card.img)
    ELSE None

\* the dict returned, or None when the body raised
extract_item_data(card) ==
    IF card.raises THEN None
    ELSE Some([ title     |-> OrDefault(title_loop(card, 1), NA),
                price     |-> OrDefault(price_loop(card, 1), NA),
                location  |-> OrDefault(location_loop(card, 1), NA),
                url       |-> OrDefault(extract_url(card), NA),
                image_url |-> OrDefault(extract_image_url(card), NA) ])

-----------------------------------------------------------------------------
(* get_page_url *)

\* str(n) for n >= 0
RECURSIVE str(_)
str(n) ==
    IF n < 10 THEN << Digits[n + 1] >>
    ELSE str(n \div 10) \o << Digits[(n % 10) + 1] >>

PageParam == << "?", "p", "a", "g", "e", "=" >>

\* get_page_url appending the query string on every page
get_page_url_always_query(base, n) == base \o PageParam \o str(n)

get_page_url(base, n) ==
    IF n = 1 THEN base
    ELSE base \o PageParam \o str(n)

-----------------------------------------------------------------------------
(* scrape_page *)

card_selectors == << "[data-aut-id=\"itemBox\"]", "li.EIR5N", "div._2fp1f", ".item-card", "[class*=\"item\"]" >>

\* the selector loop taking the last selector that matches
RECURSIVE card_loop_last_match(_, _)
card_loop_last_match(soup, i) ==
    IF i > Len(card_selectors) THEN << >>
    ELSE LET rest == card_loop_last_match(soup, i + 1)
         IN  IF rest # << >> THEN rest ELSE soup.select[card_selectors[i]]

\* for selector in card_selectors, from the i-th on: items_found
RECURSIVE card_loop(_, _)
card_loop(soup, i) ==
    IF i > Len(card_selectors) THEN << >>
    ELSE LET items == soup.select[card_selectors[i]]
         IN  IF items # << >> THEN items ELSE card_loop(soup, i + 1)

\* items_found after the fallback; soup.scan is what
\* soup.find_all(['div', 'li'], string=...) returns
items_found(soup) ==
    IF card_loop(soup, 1) # << >> THEN card_loop(soup, 1) ELSE soup.scan

\* the item loop keeping every dict, whatever its title
RECURSIVE item_loop_keep_all(_)
item_loop_keep_all(items) ==
    IF items = << >> THEN << >>
    ELSE LET data == extract_item_data(Head(items))
         IN  (IF ~IsNone(data) THEN << Val(data) >> ELSE << >>)
                 \o item_loop_keep_all(Tail(items))

\* for item_card in items_found: page_results
RECURSIVE item_loop(_)
item_loop(items) ==
    IF items = << >> THEN << >>
    ELSE LET data == extract_item_data(Head(items))
         IN  (IF ~IsNone(data) /\ Val(data).title # NA THEN << Val(data) >> ELSE << >>)
                 \o item_loop(Tail(items))

RequestExceptions == { "http_error", "request_error" }
OtherExceptions == { "other_error" }

\* only requests.RequestException is caught
caught_request_only(kind) == kind \in RequestExceptions

\* except requests.RequestException / except Exception
caught(kind) == kind \in RequestExceptions \cup OtherExceptions

\* the value scrape_page returns when session.get, raise_for_status and
\* parsing produce resp:  resp.kind is "ok", or names what was raised
scrape_page(resp) ==
    IF resp.kind = "ok" THEN item_loop(items_found(resp.soup))
    ELSE << >>

\* whether scrape_page lets the exception out
scrape_page_raises(resp) == resp.kind # "ok" /\ ~caught(resp.kind)

-----------------------------------------------------------------------------
(* Inputs *)

Txt(s) == << s >>
Blank == Some(Txt(<< " " >>))

TitleElems == { None, Blank,
                Some(<< << " ", "a" >>, << "b", "\n" >> >>),
                Some(Txt(<< "c" >>)),
                Some(Txt(NA)) }
PriceElems == { None,
                Some(Txt(<< " ", "a" >>)),
                Some(Txt(<< Rupee, " " >>)),
                Some(<< << " ", "7" >>, << "5", " " >> >>),
                Some(Txt(NA)) }
LocElems == { None, Blank, Some(Txt(<< "P", " " >>)), Some(Txt(<< "G" >>)) }
Hrefs == { None, Some(<< >>), Some(<< "/", "i" >>), Some(<< "i" >>),
           Some(Http \o << ":", "/", "/", "x" >>) }
Imgs == { None, Some(None), Some(Some(<< >>)), Some(Some(<< "s" >>)) }

IndexOf(s, x) == CHOOSE i \in 1..Len(s) : s[i] = x

\* a listing node from what its selectors match
MkCard(t, p, l, href, img, raises) ==
    [ sel |-> [ s \in FieldSelectors |->
                  IF s \in Range(title_selectors) THEN t[IndexOf(title_selectors, s)]
                  ELSE IF s \in Range(price_selectors) THEN p[IndexOf(price_selectors, s)]
                  ELSE l[IndexOf(location_selectors, s)] ],
      href |-> href, img |-> img, raises |-> raises ]

NoTitle == << None, None, None, None >>
NoPrice == << None, None, None, None >>
NoLoc == << None, None, None >>
OneTitle == << Some(Txt(<< "c" >>)), None, None, None >>

\* an element matching 'h6._2caa7' matches 'h6' too
TitleTuples == { t \in [1..4 -> TitleElems] : IsNone(t[1]) => IsNone(t[4]) }

ItemCards ==
    { MkCard(t, NoPrice, NoLoc, None, None, FALSE) : t \in TitleTuples }
    \cup { MkCard(OneTitle, p, NoLoc, None, None, FALSE) : p \in [1..4 -> PriceElems] }
    \cup { MkCard(OneTitle, NoPrice, l, None, None, FALSE) : l \in [1..3 -> LocElems] }
    \cup { MkCard(OneTitle, NoPrice, NoLoc, h, g, r) : h \in Hrefs, g \in Imgs, r \in BOOLEAN }

\* two well-formed listings, one with only a title, one without a
\* title, one whose h6 is blank, one whose title reads N/A, one that raises
CardA == MkCard(<< Some(Txt(<< "a" >>)), None, None, None >>,
                << Some(Txt(<< Rupee, "9" >>)), None, None, None >>,
                << Some(Txt(<< "P" >>)), None, None >>,
                Some(<< "/", "i" >>), Some(Some(<< "s" >>)), FALSE)
CardB == MkCard(<< None, Some(Txt(<< "b" >>)), None, None >>,
                << None, None, Some(Txt(<< "7" >>)), None >>,
                << None, None, Some(Txt(<< "G" >>)) >>,
                Some(Http \o << ":", "/", "/", "x" >>), Some(Some(<< "s" >>)), FALSE)
CardBare == MkCard(OneTitle, NoPrice, NoLoc, None, None, FALSE)
CardNoTitle == MkCard(NoTitle, << Some(Txt(<< "7" >>)), None, None, None >>,
                      << Some(Txt(<< "P" >>)), None, None >>,
                      Some(<< "/", "i" >>), Some(Some(<< "s" >>)), FALSE)
CardBlankH6 == MkCard(<< Blank, None, Some(Txt(<< "b" >>)), None >>,
                      NoPrice, NoLoc, None, None, FALSE)
CardTitleNA == MkCard(<< Some(Txt(NA)), None, None, None >>,
                      NoPrice, NoLoc, None, None, FALSE)
CardRaises == MkCard(OneTitle, NoPrice, NoLoc, None, None, TRUE)

ItemSeqs == { << >>,
              << CardA, CardB >>,
              << CardBare, CardNoTitle, CardA >>,
              << CardBlankH6, CardRaises, CardTitleNA >> }

CardSelectors == Range(card_selectors)

Soups == [ select : [CardSelectors -> ItemSeqs], scan : ItemSeqs ]

NoSoup == [ select |-> [ s \in CardSelectors |-> << >> ], scan |-> << >> ]

Failures == { "http_error", "request_error", "other_error" }

FailedResponses == { [ kind |-> k, soup |-> NoSoup ] : k \in Failures }

Responses == FailedResponses \cup { [ kind |-> "ok", soup |-> d ] : d \in Soups }

\* a page on which only selector s matches
OnlySelector(s, items) ==
    [ select |-> [ x \in CardSelectors |-> IF x = s THEN items ELSE << >> ],
      scan |-> << >> ]

\* the pages of a run: one matched by the first selector, one matched by
\* the third and the fifth, one found by the text scan only, one empty
RunSoups ==
    { OnlySelector(card_selectors[1], << CardA, CardB >>),
      [ select |-> [ x \in CardSelectors |->
                       IF x = card_selectors[3] THEN << CardBare, CardNoTitle, CardA >>
                       ELSE IF x = card_selectors[5] THEN << CardA, CardB >>
                       ELSE << >> ],
        scan |-> << CardB >> ],
      [ NoSoup EXCEPT !.scan = << CardBlankH6, CardRaises, CardTitleNA >> ],
      NoSoup }

RunResponses == FailedResponses \cup { [ kind |-> "ok", soup |-> d ] : d \in RunSoups }

DefaultBaseUrl ==
    << "h", "t", "t", "p", "s", ":", "/", "/", "w", "w", "w", ".", "o", "l", "x", ".", "i", "n",
       "/", "i", "t", "e", "m", "s", "/", "q", "-", "c", "a", "r", "-", "c", "o", "v", "e", "r" >>
BaseUrls == { DefaultBaseUrl, << "u" >> }

-----------------------------------------------------------------------------
(* save_to_csv, save_to_json *)

CsvNames == { "olx_car_covers.csv", "shared.out" }
JsonNames == { "olx_car_covers.json", "shared.out" }
Filenames == CsvNames \cup JsonNames

fieldnames == << "title", "price", "location", "url", "image_url" >>

\* writer.writerow(item)
writerow(item) == [ i \in 1..Len(fieldnames) |-> item[fieldnames[i]] ]

\* what save_to_csv writes: the header, then a row per item
csv_file(items) ==
    [ fmt |-> "csv",
      rows |-> << fieldnames >> \o [ i \in 1..Len(items) |-> writerow(items[i]) ],
      items |-> << >> ]

\* what save_to_json writes: json.dump(self.results, ...)
json_file(items) == [ fmt |-> "json", rows |-> << >>, items |-> items ]

StaleFile == [ fmt |-> "stale", rows |-> << >>, items |-> << >> ]

\* os.path.join('output', filename)
path_join(filename) == << "output", filename >>

\* os.makedirs('output', exist_ok=True); open(filepath, 'w') ... write
write_file(f, filename, content) ==
    [ dir |-> TRUE, files |-> [ f.files EXCEPT ![filename] = Some(content) ] ]

\* save_to_csv writing the header even for an empty list
save_to_csv_no_guard(f, items, filename) ==
    [ fs |-> write_file(f, filename, csv_file(items)), value |-> Some(path_join(filename)) ]

\* save_to_csv(filename): the filesystem after, and the value returned
save_to_csv(f, items, filename) ==
    IF items = << >> THEN [ fs |-> f, value |-> None ]
    ELSE [ fs |-> write_file(f, filename, csv_file(items)), value |-> Some(path_join(filename)) ]

\* save_to_json(filename): the filesystem after, and the value returned
save_to_json(f, items, filename) ==
    IF items = << >> THEN [ fs |-> f, value |-> None ]
    ELSE [ fs |-> write_file(f, filename, json_file(items)), value |-> Some(path_join(filename)) ]

NoOutputDir == [ dir |-> FALSE, files |-> [ n \in Filenames |-> None ] ]

InitFs == { NoOutputDir,
            [ NoOutputDir EXCEPT !.dir = TRUE ],
            [ dir |-> TRUE, files |-> [ n \in Filenames |-> Some(StaleFile) ] ] }

-----------------------------------------------------------------------------
(* scrape_multiple_pages *)

\* range(1, max_pages) in place of range(1, max_pages + 1)
in_range_short(p, n) == 1 <= p /\ p < n

\* page in range(1, max_pages + 1)
in_range(p, n) == 1 <= p /\ p < n + 1

\* sleeping after the last page too
needs_sleep_always(p, n) == TRUE

\* if page < max_pages
needs_sleep(p, n) == p < n

\* list.extend putting the new items first
extend_front(l, more) == more \o l

\* all_results.extend(page_results)
extend(l, more) == l \o more

RunVars == << pc, max_pages, page, all_results, results, requested, outcomes, log, base_url >>
SaveVars == << fs, ret, saves >>
CallVars == << item_card, item_data, page_num, response, located, page_results, called >>

NoCall == [ op |-> "none", filename |-> "", value |-> None ]

\* the loop header: the next page, or the end of the loop
Advance(p) ==
    IF in_range(p, max_pages)
    THEN /\ page' = p
         /\ pc' = "loop"
    ELSE /\ page' = page
         /\ pc' = "finish"

\* scrape_multiple_pages is called: all_results = [], the loop starts
Start ==
    /\ pc = "idle"
    /\ all_results' = << >>
    /\ Advance(1)
    /\ UNCHANGED << max_pages, results, requested, outcomes, log, base_url >>
    /\ UNCHANGED SaveVars
    /\ UNCHANGED CallVars

\* one iteration up to the sleep: scrape_page(page), extend
ScrapePage ==
    /\ pc = "loop"
    /\ \E resp \in RunResponses :
         /\ requested' = Append(requested, get_page_url(base_url, page))
         /\ outcomes' = Append(outcomes, [ page |-> page, resp |-> resp ])
         /\ log' = Append(log, [ op |-> "get", page |-> page ])
         /\ IF scrape_page_raises(resp)
            THEN /\ pc' = "raised"
                 /\ UNCHANGED << page, all_results >>
            ELSE /\ all_results' = extend(all_results, scrape_page(resp))
                 /\ IF needs_sleep(page, max_pages)
                    THEN /\ pc' = "sleep"
                         /\ page' = page
                    ELSE Advance(page + 1)
    /\ UNCHANGED << max_pages, results, base_url >>
    /\ UNCHANGED SaveVars
    /\ UNCHANGED CallVars

\* time.sleep(self.delay), then the loop header
Sleep ==
    /\ pc = "sleep"
    /\ log' = Append(log, [ op |-> "sleep", page |-> page ])
    /\ Advance(page + 1)
    /\ UNCHANGED << max_pages, all_results, results, requested, outcomes, base_url >>
    /\ UNCHANGED SaveVars
    /\ UNCHANGED CallVars

\* self.results = all_results; return all_results
Finish ==
    /\ pc = "finish"
    /\ results' = all_results
    /\ pc' = "done"
    /\ UNCHANGED << max_pages, page, all_results, requested, outcomes, log, base_url >>
    /\ UNCHANGED SaveVars
    /\ UNCHANGED CallVars

SaveToCsv ==
    /\ pc \in { "idle", "done" }
    /\ saves < MaxSaves
    /\ \E filename \in CsvNames :
         LET r == save_to_csv(fs, results, filename)
         IN  /\ fs' = r.fs
             /\ ret' = [ op |-> "csv", filename |-> filename, value |-> r.value ]
    /\ saves' = saves + 1
    /\ UNCHANGED RunVars
    /\ UNCHANGED CallVars

SaveToJson ==
    /\ pc \in { "idle", "done" }
    /\ saves < MaxSaves
    /\ \E filename \in JsonNames :
         LET r == save_to_json(fs, results, filename)
         IN  /\ fs' = r.fs
             /\ ret' = [ op |-> "json", filename |-> filename, value |-> r.value ]
    /\ saves' = saves + 1
    /\ UNCHANGED RunVars
    /\ UNCHANGED CallVars

\* the state after OLXScraper(...), nothing called yet
Constructed ==
    /\ pc = "idle"
    /\ page = 0
    /\ all_results = << >>
    /\ results = << >>
    /\ requested = << >>
    /\ outcomes = << >>
    /\ log = << >>
    /\ ret = NoCall
    /\ saves = 0
    /\ item_data = None
    /\ located = << >>
    /\ page_results = << >>
    /\ called = FALSE

Init ==
    /\ Constructed
    /\ max_pages \in 0..MaxPages
    /\ fs = NoOutputDir
    /\ base_url = DefaultBaseUrl
    /\ item_card = CardA
    /\ page_num = 1
    /\ response = [ kind |-> "ok", soup |-> NoSoup ]

Next == Start \/ ScrapePage \/ Sleep \/ Finish

Spec == Init /\ [][Next]_vars

-----------------------------------------------------------------------------
(* Calls of save_to_csv and save_to_json, before or after a run *)

\* values of self.results: what a run over two pages can leave
ResultLists ==
    { extend(scrape_page(r1), scrape_page(r2)) : r1 \in RunResponses, r2 \in RunResponses }

InitSave ==
    /\ pc \in { "idle", "done" }
    /\ results \in ResultLists
    /\ pc = "idle" => results = << >>
    /\ all_results = results
    /\ max_pages = 1
    /\ page = 0
    /\ requested = << >>
    /\ outcomes = << >>
    /\ log = << >>
    /\ ret = NoCall
    /\ saves = 0
    /\ fs \in InitFs
    /\ base_url = DefaultBaseUrl
    /\ item_card = CardA
    /\ item_data = None
    /\ page_num = 1
    /\ response = [ kind |-> "ok", soup |-> NoSoup ]
    /\ located = << >>
    /\ page_results = << >>
    /\ called = FALSE

NextSave == SaveToCsv \/ SaveToJson

SpecSave == InitSave /\ [][NextSave]_vars

-----------------------------------------------------------------------------
(* A direct call of extract_item_data *)

CallExtractItemData ==
    /\ ~called
    /\ item_data' = extract_item_data(item_card)
    /\ called' = TRUE
    /\ UNCHANGED << item_card, page_num, response, located, page_results >>
    /\ UNCHANGED RunVars
    /\ UNCHANGED SaveVars

InitExtract ==
    /\ Constructed
    /\ max_pages = 0
    /\ fs = NoOutputDir
    /\ base_url = DefaultBaseUrl
    /\ item_card \in ItemCards
    /\ page_num = 1
    /\ response = [ kind |-> "ok", soup |-> NoSoup ]

NextExtract == CallExtractItemData

SpecExtract == InitExtract /\ [][NextExtract]_vars

-----------------------------------------------------------------------------
(* A direct call of scrape_page *)

CallScrapePage ==
    /\ ~called
    /\ requested' = Append(requested, get_page_url(base_url, page_num))
    /\ located' = IF response.kind = "ok" THEN items_found(response.soup) ELSE << >>
    /\ page_results' = scrape_page(response)
    /\ called' = TRUE
    /\ UNCHANGED << item_card, item_data, page_num, response >>
    /\ UNCHANGED << pc, max_pages, page, all_results, results, outcomes, log, base_url >>
    /\ UNCHANGED SaveVars

InitPage ==
    /\ Constructed
    /\ max_pages = 0
    /\ fs = NoOutputDir
    /\ base_url \in BaseUrls
    /\ item_card = CardA
    /\ page_num \in 1..MaxPageNum
    /\ response \in Responses

NextPage == CallScrapePage

SpecPage == InitPage /\ [][NextPage]_vars

-----------------------------------------------------------------------------
(* Properties *)

IsPrefix(a, b) == Len(a) <= Len(b) /\ SubSeq(b, 1, Len(a)) = a

Min(S) == CHOOSE x \in S : \A y \in S : x <= y

RECURSIVE ConcatAll(_)
ConcatAll(ss) == IF ss = << >> THEN << >> ELSE Head(ss) \o ConcatAll(Tail(ss))

Members(l) == { l[i] : i \in 1..Len(l) }

\* whether a listing node yields a dict with a resolved title
HasTitle(card) ==
    /\ ~IsNone(extract_item_data(card))
    /\ Val(extract_item_data(card)).title # NA

\* the records a fetched page is to contribute, in document order
KeptOf(resp) ==
    IF resp.kind # "ok" THEN << >>
    ELSE LET kept == SelectSeq(items_found(resp.soup), HasTitle)
         IN  [ i \in 1..Len(kept) |-> Val(extract_item_data(kept[i])) ]

RecA == [ title |-> << "a" >>, price |-> << Rupee, "9" >>, location |-> << "P" >>,
          url |-> Origin \o << "/", "i" >>, image_url |-> << "s" >> ]
RecB == [ title |-> << "b" >>, price |-> << "7" >>, location |-> << "G" >>,
          url |-> Http \o << ":", "/", "/", "x" >>, image_url |-> << "s" >> ]

\* C1: a record is in the list returned by scrape_multiple_pages (and in
\* self.results) iff its title is not "N/A": no record of the list has the
\* title "N/A", and every listing node located on a fetched page whose
\* extracted title is not "N/A" has its record in the list.
C1_KeptIffTitled ==
    /\ \A r \in Members(all_results) \cup Members(results) : r.title # NA
    /\ \A k \in 1..Len(outcomes) :
         outcomes[k].resp.kind = "ok" =>
            \A card \in Members(items_found(outcomes[k].resp.soup)) :
               HasTitle(card) => Val(extract_item_data(card)) \in Members(all_results)
    /\ pc = "done" => Members(results) = Members(all_results)

C1_Witness ==
    /\ pc = "done"
    /\ \E r \in Members(results) :
         r.price = NA /\ r.location = NA /\ r.url = NA /\ r.image_url = NA
    /\ \E k \in 1..Len(outcomes) :
         /\ outcomes[k].resp.kind = "ok"
         /\ \E card \in Members(items_found(outcomes[k].resp.soup)) :
              /\ ~IsNone(extract_item_data(card))
              /\ Val(extract_item_data(card)).title = NA
              /\ Val(extract_item_data(card)).price # NA

\* C2: a page whose fetch fails (bad status, request error, any other
\* exception) adds no record and does not stop scrape_multiple_pages, whose
\* result holds the records of the other pages; with max_pages = 2, page 1
\* holding two well-formed listings and page 2 failing, the result is
\* exactly the two records of page 1.
C2_FailedPageIsEmpty ==
    /\ [][ ( /\ Len(outcomes') = Len(outcomes) + 1
             /\ outcomes'[Len(outcomes')].resp.kind \in Failures )
           => ( /\ all_results' = all_results
                /\ pc' \in { "loop", "sleep", "finish" } ) ]_vars
    /\ [] ( pc = "done" =>
              /\ \A k \in 1..Len(outcomes) :
                   outcomes[k].resp.kind = "ok" =>
                      Members(KeptOf(outcomes[k].resp)) \subseteq Members(results)
              /\ ( /\ max_pages = 2
                   /\ outcomes[1].resp.kind = "ok"
                   /\ items_found(outcomes[1].resp.soup) = << CardA, CardB >>
                   /\ outcomes[2].resp.kind \in Failures )
                 => results = << RecA, RecB >> )

C2_Witness ==
    /\ pc = "done"
    /\ max_pages = 2
    /\ outcomes[1].resp.kind = "ok"
    /\ items_found(outcomes[1].resp.soup) = << CardA, CardB >>
    /\ outcomes[2].resp.kind = "http_error"
    /\ Len(results) = 2

\* C3: scrape_multiple_pages attempts the pages 1..max_pages once each, in
\* increasing order, whatever the earlier pages returned, and ends only
\* after page max_pages was attempted.
C3_EveryPageOnceInOrder ==
    /\ \A i \in 1..Len(outcomes) : outcomes[i].page = i
    /\ Len(outcomes) <= max_pages
    /\ pc = "loop" => page = Len(outcomes) + 1
    /\ pc = "sleep" => page = Len(outcomes)
    /\ pc \in { "finish", "done" } => Len(outcomes) = max_pages
    /\ pc \in { "idle", "loop", "sleep", "finish", "done" }

C3_Witness ==
    /\ pc = "done"
    /\ max_pages >= 3
    /\ outcomes[1].resp.kind \in Failures
    /\ outcomes[2].resp.kind = "ok"
    /\ KeptOf(outcomes[2].resp) = << >>
    /\ outcomes[max_pages].page = max_pages

RECURSIVE ExpectedLog(_)
ExpectedLog(n) ==
    IF n <= 0 THEN << >>
    ELSE IF n = 1 THEN << [ op |-> "get", page |-> 1 ] >>
    ELSE ExpectedLog(n - 1)
            \o << [ op |-> "sleep", page |-> n - 1 ], [ op |-> "get", page |-> n ] >>

Sleeps == SelectSeq(log, LAMBDA e : e.op = "sleep")

\* C4: the pause happens after every page except the last: one pause
\* between the attempt of page k and that of page k+1 for 1 <= k < max_pages,
\* whatever page k produced, and none after page max_pages.
C4_PauseBetweenPages ==
    /\ IsPrefix(log, ExpectedLog(max_pages))
    /\ pc = "sleep" => log[Len(log)] = [ op |-> "get", page |-> page ]
    /\ pc \in { "finish", "done" } =>
         /\ log = ExpectedLog(max_pages)
         /\ max_pages >= 1 => Len(Sleeps) = max_pages - 1

C4_Witness ==
    /\ pc = "done"
    /\ max_pages >= 2
    /\ outcomes[1].resp.kind \in Failures
    /\ Len(Sleeps) = max_pages - 1
    /\ log[Len(log)].op = "get"

\* C5: with an empty record list save_to_csv and save_to_json leave the
\* filesystem as it is and return no path; with a non-empty list each
\* writes its file under 'output' and returns the file's path.
C5_SaveNoOpWhenEmpty ==
    [][ saves' = saves + 1 =>
          IF results = << >>
          THEN /\ fs' = fs
               /\ IsNone(ret'.value)
          ELSE /\ ret'.value = Some(<< "output", ret'.filename >>)
               /\ fs'.dir
               /\ \A n \in Filenames \ { ret'.filename } : fs'.files[n] = fs.files[n]
               /\ ~IsNone(fs'.files[ret'.filename])
               /\ LET file == Val(fs'.files[ret'.filename])
                  IN  /\ file.fmt = ret'.op
                      /\ ret'.op = "csv" =>
                           /\ Len(file.rows) = Len(results) + 1
                           /\ file.rows[1] = << "title", "price", "location", "url", "image_url" >>
                      /\ ret'.op = "json" => file.items = results ]_vars

C5_Witness ==
    /\ pc = "done"
    /\ results = << >>
    /\ saves = 2
    /\ IsNone(ret.value)
    /\ ~fs.dir

HasDigitOrRupee(t) == \E i \in 1..Len(t) : t[i] \in { Rupee } \cup Members(Digits)

\* the element the i-th selector of a field matches under item_card
Cand(selectors, i) == item_card.sel[selectors[i]]

\* the price selectors whose element's text qualifies
Qualifying ==
    { i \in 1..Len(price_selectors) :
        /\ ~IsNone(Cand(price_selectors, i))
        /\ HasDigitOrRupee(get_text(Val(Cand(price_selectors, i)))) }

\* C6: the price is the trimmed text of the first price selector, in list
\* order, whose element's text contains the currency symbol or a digit;
\* candidates with neither are passed over; the price is "N/A" exactly when
\* no candidate qualifies.
C6_PriceFirstQualifying ==
    (called /\ ~IsNone(item_data)) =>
        /\ Qualifying # {} =>
             Val(item_data).price = get_text(Val(Cand(price_selectors, Min(Qualifying))))
        /\ Val(item_data).price = NA <=> Qualifying = {}

C6_Witness ==
    /\ called
    /\ ~IsNone(item_data)
    /\ ~IsNone(Cand(price_selectors, 1))
    /\ 1 \notin Qualifying
    /\ Qualifying # {}
    /\ Val(item_data).price = << "7", "5" >>

\* the selectors of a field that match an element
Matching(selectors) ==
    { i \in 1..Len(selectors) : ~IsNone(Cand(selectors, i)) }

\* the selectors of a field that match an element with non-empty text
NonEmpty(selectors) ==
    { i \in Matching(selectors) : get_text(Val(Cand(selectors, i))) # << >> }

\* C7 as stated: the title (and the location) is the text of the first
\* selector, in list order, that produces non-empty text; a selector whose
\* element has empty trimmed text is passed over; the field is "N/A" only
\* when no selector produces non-empty text.
C7_FirstNonEmptyWins ==
    (called /\ ~IsNone(item_data)) =>
        /\ IF NonEmpty(title_selectors) = {}
           THEN Val(item_data).title = NA
           ELSE Val(item_data).title =
                  get_text(Val(Cand(title_selectors, Min(NonEmpty(title_selectors)))))
        /\ IF NonEmpty(location_selectors) = {}
           THEN Val(item_data).location = NA
           ELSE Val(item_data).location =
                  get_text(Val(Cand(location_selectors, Min(NonEmpty(location_selectors)))))

\* what a field is to be when the first matching selector decides it
FirstMatchField(selectors) ==
    IF Matching(selectors) = {} THEN NA
    ELSE LET text == get_text(Val(Cand(selectors, Min(Matching(selectors)))))
         IN  IF text = << >> THEN NA ELSE text

\* C7 amended: the title (and the location) is decided by the first
\* selector, in list order, that matches an element, whatever its text:
\* the field is that element's trimmed text, or "N/A" when that text is
\* empty or when no selector matches; later selectors are not tried.
C7_FirstMatchWins ==
    (called /\ ~IsNone(item_data)) =>
        /\ Val(item_data).title = FirstMatchField(title_selectors)
        /\ Val(item_data).location = FirstMatchField(location_selectors)

C7_Witness ==
    /\ called
    /\ ~IsNone(item_data)
    /\ 1 \in Matching(title_selectors)
    /\ 1 \notin NonEmpty(title_selectors)
    /\ NonEmpty(title_selectors) # {}
    /\ Val(item_data).title = NA

\* the number a string of decimal digits denotes
RECURSIVE ParseDec(_)
ParseDec(s) ==
    IF s = << >> THEN 0
    ELSE 10 * ParseDec(SubSeq(s, 1, Len(s) - 1))
           + (CHOOSE d \in 0..9 : Digits[d + 1] = s[Len(s)])

\* C8: the URL scrape_page(k) requests is the base URL itself for k = 1,
\* and the base URL followed by "?page=" and k in decimal for k > 1.
C8_PageUrl ==
    called =>
        /\ Len(requested) = 1
        /\ LET url == requested[1]
               n == Len(base_url)
           IN  IF page_num = 1 THEN url = base_url
               ELSE /\ Len(url) > n + 6
                    /\ SubSeq(url, 1, n) = base_url
                    /\ SubSeq(url, n + 1, n + 6) = << "?", "p", "a", "g", "e", "=" >>
                    /\ \A i \in (n + 7)..Len(url) : url[i] \in Members(Digits)
                    /\ url[n + 7] # "0"
                    /\ ParseDec(SubSeq(url, n + 7, Len(url))) = page_num

C8_Witness ==
    /\ called
    /\ page_num = 1
    /\ base_url = DefaultBaseUrl
    /\ requested = << DefaultBaseUrl >>

\* the card selectors that match a node of the fetched page
MatchingCards ==
    { i \in 1..Len(card_selectors) : response.soup.select[card_selectors[i]] # << >> }

C10_AppendOnlyConcatenation ==
    /\ [] ( all_results = ConcatAll([ k \in 1..Len(outcomes) |-> KeptOf(outcomes[k].resp) ]) )
    /\ [] ( pc = "done" => results = all_results )
    /\ [][ IsPrefix(all_results, all_results') ]_vars

C10_Witness ==
    /\ pc = "done"
    /\ Len(outcomes) >= 2
    /\ KeptOf(outcomes[1].resp) = << RecA, RecB >>
    /\ KeptOf(outcomes[2].resp) = << RecA, RecB >>
    /\ Len(results) >= 4
    /\ results[1] = results[3]

====
